---- MODULE Spec2Model ----
(***************************************************************************)
(* A model of pynboard: the HTML buffer (html_buffer.py), the conversion   *)
(* of displayable objects to HTML fragments, the numeric display precision *)
(* heuristic, the default wiring (utils.py) and the process-wide active    *)
(* board (__init__.py).                                                    *)
(*                                                                         *)
(* Python strings are sequences of tokens (TLA+ strings); a token is one   *)
(* character of user text or one literal chunk the code emits.  An         *)
(* Optional[str] is <<>> for None and <<s>> for the string s.              *)
(***************************************************************************)
EXTENDS Integers, Sequences, FiniteSets, TLC

VARIABLES
    buffer_data,   \* HtmlBuffer._buffer_data: sequence of fragments
    rendered,      \* HtmlBuffer._rendered: <<>> (None) or <<document>>
    lastCall,      \* the last buffer call: operation, argument, outcome
    appended,      \* history: the fragments' source calls since creation/reset
    snap,          \* history: buffer_data as read by the last render() since reset
    data_in,       \* the numeric columns handed to the precision heuristic
    prec_out,      \* <<>> before it has run, then <<its result>>
    _active_board, \* pynboard._active_board: 0 (None) or a board of the heap
    heap,          \* the Board objects created so far
    saved,         \* the HTML file last written: <<>> or <<its content>>
    lastOp,        \* the last module-level call and what it did
    defaults_made  \* history: default boards get_active_board has constructed

bufvars == <<buffer_data, rendered, lastCall, appended, snap>>
precvars == <<data_in, prec_out>>
boardvars == <<_active_board, heap, saved, lastOp, defaults_made>>
vars == <<bufvars, precvars, boardvars>>

\* ------------------------------------------------------------------ bounds

MaxFrags == 2      \* fragments held by a buffer under SpecBuf
MaxCols == 2       \* cells in a grid row
MaxRows == 2       \* rows in a nested grid
MaxPrecRows == 3   \* rows of a table handed to the precision heuristic
MaxBoards == 2     \* Board objects created under SpecSession
MaxSessionFrags == 1 \* fragments held by a board's buffer under SpecSession
MaxBoardFrags == 2 \* fragments held by the board's buffer under Spec
MaxActions == 3    \* post-render actions of a board (the default board has 3)

\* ----------------------------------------------------------------- strings

None == <<>>
Some(s) == <<s>>

\* str.join(parts): the parts with sep between neighbours
RECURSIVE Join(_, _)
Join(sep, parts) ==
    IF Len(parts) = 0 THEN <<>>
    ELSE IF Len(parts) = 1 THEN parts[1]
    ELSE parts[1] \o sep \o Join(sep, Tail(parts))

SeqsUpTo(S, lo, hi) == UNION {[1..n -> S] : n \in lo..hi}

\* ----------------------------------------------------------------- objects
\* A Python object handed to append: its runtime kind, its text (a str), its
\* items (a list or tuple's elements; a dict's keys, which iteration yields).

Obj(kind, text, items) == [kind |-> kind, text |-> text, items |-> items]
FigObj == Obj("Figure", <<>>, <<>>)
StylerObj == Obj("Styler", <<>>, <<>>)
FrameObj == Obj("DataFrame", <<>>, <<>>)
SeriesObj == Obj("Series", <<>>, <<>>)
IntObj == Obj("int", <<>>, <<>>)
StrObj(text) == Obj("str", text, <<>>)
ListObj(items) == Obj("list", <<>>, items)
TupleObj(items) == Obj("tuple", <<>>, items)
DictObj(keys) == Obj("dict", <<>>, keys)

\* keyword options: a function from the option names given to their values
NoKw == [k \in {} |-> TRUE]
KwRaw == [k \in {"raw_string"} |-> TRUE]
KwNoIndex == [k \in {"index"} |-> FALSE]
KwTitle == [k \in {"title"} |-> TRUE]
Kwargs == {NoKw, KwRaw, KwNoIndex, KwTitle}

\* dict.get(key, default)
KwGet(kwargs, key, default) ==
    IF key \in DOMAIN kwargs THEN kwargs[key] ELSE default

\* -------------------------------------------------------- html conversion
\* A conversion returns [err, html]: err = "" and the HTML, or the exception
\* raised and no HTML.

Ok(html) == [err |-> "", html |-> html]
Raise(err) == [err |-> err, html |-> <<>>]

\* markdown.markdown(text) of plain one-paragraph text
markdown(text) ==
    IF Len(text) = 0 THEN <<>> ELSE <<"<p>">> \o text \o <<"</p>">>

\* _generate_frame_style(obj, index, title).to_html(): the styled table, with
\* its caption when a title is given and its row labels unless index is false
FrameHtml(from, index, title) ==
    <<"<style>", "<table id=T>">>
        \o (IF title THEN <<"<caption>">> ELSE <<>>)
        \o (IF index THEN <<"<th>">> ELSE <<>>)
        \o <<from, "</table>">>

_obj_single_to_html(obj, kwargs) ==
    IF obj.kind = "Figure" THEN Ok(<<"pio.to_html">>)
    ELSE IF obj.kind = "Styler" THEN Ok(<<"Styler.to_html">>)
    ELSE IF obj.kind \in {"DataFrame", "Series"} THEN
        Ok(FrameHtml(IF obj.kind = "Series" THEN "to_frame" ELSE "frame",
                     KwGet(kwargs, "index", TRUE), KwGet(kwargs, "title", FALSE)))
    ELSE IF obj.kind = "str" THEN
        IF KwGet(kwargs, "raw_string", FALSE) THEN Ok(obj.text)
        ELSE Ok(markdown(obj.text))
    ELSE Raise("TypeError: unexpected object type")

IsListOrTuple(obj) == obj.kind \in {"list", "tuple"}

\* iter(obj_row): the elements the inner for loop visits, or the TypeError of
\* iterating an object that is not iterable
IterItems(obj_row) ==
    IF obj_row.kind \in {"list", "tuple", "dict"} THEN Ok(obj_row.items)
    ELSE IF obj_row.kind = "str" THEN
        Ok([i \in 1..Len(obj_row.text) |-> StrObj(<<obj_row.text[i]>>)])
    ELSE Raise("TypeError: object is not iterable")

\* the inner loop of _obj_grid_to_html over one row, from cell i on: the list
\* elements it appends, or the first exception
RECURSIVE RowCells(_, _, _)
RowCells(cells, i, kwargs) ==
    IF i > Len(cells) THEN Ok(<<>>)
    ELSE LET html0 == _obj_single_to_html(cells[i], kwargs)
         IN  IF html0.err # "" THEN html0
             ELSE LET rest == RowCells(cells, i + 1, kwargs)
                  IN  IF rest.err # "" THEN rest
                      ELSE Ok(<<(<<"<td>">> \o html0.html \o <<"</td>">>)>> \o rest.html)

\* the outer loop of _obj_grid_to_html, from row r on
RECURSIVE GridRows(_, _, _)
GridRows(objs, r, kwargs) ==
    IF r > Len(objs) THEN Ok(<<>>)
    ELSE LET it == IterItems(objs[r])
         IN  IF it.err # "" THEN it
             ELSE LET row == RowCells(it.html, 1, kwargs)
                  IN  IF row.err # "" THEN row
                      ELSE LET rest == GridRows(objs, r + 1, kwargs)
                           IN  IF rest.err # "" THEN rest
                               ELSE Ok(<<(<<"<tr>">>)>> \o row.html
                                         \o <<(<<"</tr>">>)>> \o rest.html)

\* _obj_grid_to_html without the wrapping of a flat sequence into one row
_obj_grid_to_html_noWrap(objs, kwargs) ==
    LET body == GridRows(objs.items, 1, kwargs)
    IN  IF body.err # "" THEN body
        ELSE Ok(Join(<<"\n">>, <<(<<"<table>">>)>> \o body.html \o <<(<<"</table>">>)>>))

_obj_grid_to_html(objs, kwargs) ==
    LET rows == IF Len(objs.items) > 0 /\ ~IsListOrTuple(objs.items[1])
                THEN <<objs>> ELSE objs.items
        body == GridRows(rows, 1, kwargs)
    IN  IF body.err # "" THEN body
        ELSE Ok(Join(<<"\n">>, <<(<<"<table>">>)>> \o body.html \o <<(<<"</table>">>)>>))

_obj_to_html(obj, kwargs) ==
    IF IsListOrTuple(obj) THEN _obj_grid_to_html(obj, kwargs)
    ELSE _obj_single_to_html(obj, kwargs)

\* ------------------------------------------------------------- HtmlBuffer

_TEXT_CSS_STYLE == <<"\n<style>", "css", "</style>\n">>
Separator == <<"\n<br>\n">>

\* a record of one call: prev is the operation called before it
Call(op, obj, kwargs, err) ==
    [op |-> op, obj |-> obj, kwargs |-> kwargs, err |-> err, prev |-> lastCall.op]

\* HtmlBuffer(): an empty fragment list; _rendered reads the class default None
HtmlBuffer == [buffer_data |-> <<>>, rendered |-> None]

\* RenderDoc with the separator written after every fragment, the last included
RenderDoc_sepAfterEach(frags) ==
    _TEXT_CSS_STYLE \o <<"\n\n\n">>
        \o Join(<<>>, [i \in 1..Len(frags) |-> frags[i] \o Separator])

\* the document render() computes from the fragments
RenderDoc(frags) == _TEXT_CSS_STYLE \o <<"\n\n\n">> \o Join(Separator, frags)

\* HtmlBuffer.append(obj, **kwargs): the exception raised ("" for none) and
\* the buffer afterwards
HtmlBuffer_append(self, obj, kwargs) ==
    LET html == _obj_to_html(obj, kwargs)
    IN  IF html.err # "" THEN [err |-> html.err, self |-> self]
        ELSE [err |-> "",
              self |-> [self EXCEPT !.buffer_data = Append(@, html.html)]]

\* render() that consumes the fragments it joins
HtmlBuffer_render_consumes(self) ==
    [buffer_data |-> <<>>, rendered |-> Some(RenderDoc(self.buffer_data))]

\* HtmlBuffer.render()
HtmlBuffer_render(self) ==
    [self EXCEPT !.rendered = Some(RenderDoc(self.buffer_data))]

\* reset() that clears the fragments and keeps the stored document
HtmlBuffer_reset_keepsRendered(self) == [self EXCEPT !.buffer_data = <<>>]

\* HtmlBuffer.reset()
HtmlBuffer_reset(self) == [buffer_data |-> <<>>, rendered |-> None]

\* ------------------------------------------------------------------ Board
\* core.py (Board) and actions.py (the post-render actions) are not among the
\* sources; they are modelled from the specification's sections 4.4 and 6.

\* the post-render actions: a name and, for the save action, its bound path
\* ("" for path=None, a temporary file)
dump_rendered_to_html_file(path) == [name |-> "dump_rendered_to_html_file", path |-> path]
open_saved_buffer_in_browser == [name |-> "open_saved_buffer_in_browser", path |-> ""]
reset_buffer == [name |-> "reset_buffer", path |-> ""]

\* Board(buffer): one buffer and no post-render action; built and rewired are
\* history: how utils built the board, and whether its actions were replaced
\* through pynboard.set_post_render_actions since
Board(buffer) ==
    [_buffer |-> buffer, _post_render_actions |-> <<>>,
     built |-> "Board", rewired |-> FALSE]

\* Board.set_post_render_actions(actions)
Board_set_post_render_actions(self, actions) ==
    [self EXCEPT !._post_render_actions = actions]

\* Board.append(obj, **kwargs): forwarded to the buffer
Board_append(self, obj, kwargs) ==
    LET r == HtmlBuffer_append(self._buffer, obj, kwargs)
    IN  [err |-> r.err, self |-> [self EXCEPT !._buffer = r.self]]

\* Board.reset(): forwarded to the buffer
Board_reset(self) ==
    [self EXCEPT !._buffer = HtmlBuffer_reset(@)]

\* one invocation of a post-render action: what was called, the document the
\* buffer held then, and whether the call raised
Invocation(action, buffer, raised) ==
    [name |-> action.name, rendered |-> buffer.rendered, raised |-> raised]

\* the loop of Board.render over the actions from the i-th on; the failAt-th
\* raises (0: none does).  st is the board, the file written, the invocations
\* so far and the exception that ended the loop
RECURSIVE RunActions(_, _, _)
RunActions(st, i, failAt) ==
    LET acts == st.self._post_render_actions
    IN  IF i > Len(acts) THEN st
        ELSE IF i = failAt
        THEN [st EXCEPT !.calls = Append(@, Invocation(acts[i], st.self._buffer, TRUE)),
                        !.err = "CallbackError"]
        ELSE LET called == [st EXCEPT !.calls =
                                Append(@, Invocation(acts[i], st.self._buffer, FALSE))]
                 after ==
                    IF acts[i].name = "dump_rendered_to_html_file"
                    THEN [called EXCEPT !.saved = st.self._buffer.rendered]
                    ELSE IF acts[i].name = "reset_buffer"
                    THEN [called EXCEPT !.self._buffer = HtmlBuffer_reset(@)]
                    ELSE called
             IN  RunActions(after, i + 1, failAt)

\* the actions that can raise: writing the file and opening the browser
CanFail(self, failAt) ==
    \/ failAt = 0
    \/ /\ failAt \in 1..Len(self._post_render_actions)
       /\ self._post_render_actions[failAt].name # "reset_buffer"

\* Board.render(): buffer.render(), then every post-render action in order
Board_render(self, file, failAt) ==
    RunActions([self |-> [self EXCEPT !._buffer = HtmlBuffer_render(@)],
                saved |-> file, calls |-> <<>>, err |-> ""], 1, failAt)

\* ------------------------------------------------------------------ utils

\* action_sequence_html_file with reset before open
action_sequence_html_file_resetFirst(file_path, open_file, reset_buffer_) ==
    <<dump_rendered_to_html_file(file_path)>>
        \o (IF reset_buffer_ THEN <<reset_buffer>> ELSE <<>>)
        \o (IF open_file THEN <<open_saved_buffer_in_browser>> ELSE <<>>)

\* action_sequence_html_file(file_path, open_file, reset_buffer)
action_sequence_html_file(file_path, open_file, reset_buffer_) ==
    <<dump_rendered_to_html_file(file_path)>>
        \o (IF open_file THEN <<open_saved_buffer_in_browser>> ELSE <<>>)
        \o (IF reset_buffer_ THEN <<reset_buffer>> ELSE <<>>)

create_default_board ==
    [Board_set_post_render_actions(Board(HtmlBuffer),
                                   action_sequence_html_file("", TRUE, TRUE))
        EXCEPT !.built = "default"]

\* init_html_board's board with reset_on_render not passed on
init_html_board_board_resetDropped(file_path, open_file, reset_on_render) ==
    [Board_set_post_render_actions(create_default_board,
        action_sequence_html_file(file_path, open_file, TRUE))
        EXCEPT !.built = IF reset_on_render THEN "init" ELSE "init_keep"]

\* the board init_html_board builds
init_html_board_board(file_path, open_file, reset_on_render) ==
    [Board_set_post_render_actions(create_default_board,
        action_sequence_html_file(file_path, open_file, reset_on_render))
        EXCEPT !.built = IF reset_on_render THEN "init" ELSE "init_keep"]

\* --------------------------------------------------------------- pynboard
\* The module-level operations of __init__.py on the process-wide board.

Op(op, board, err, created, calls) ==
    [op |-> op, board |-> board, err |-> err, created |-> created, calls |-> calls]

BoardInit ==
    /\ _active_board = 0
    /\ heap = <<>>
    /\ saved = None
    /\ lastOp = Op("init", 0, "", FALSE, <<>>)
    /\ defaults_made = 0

\* get_active_board that constructs a default board on every call
get_active_board_always ==
    [heap |-> Append(heap, create_default_board), board |-> Len(heap) + 1,
     created |-> TRUE]

\* get_active_board(): the heap and the board afterwards
get_active_board ==
    IF _active_board = 0
    THEN [heap |-> Append(heap, create_default_board), board |-> Len(heap) + 1,
          created |-> TRUE]
    ELSE [heap |-> heap, board |-> _active_board, created |-> FALSE]

\* the heap once the board g names has become self
Put(g, self) == [g.heap EXCEPT ![g.board] = self]

Made(g) == defaults_made + (IF g.created THEN 1 ELSE 0)

pynboard_get_active_board ==
    LET g == get_active_board
    IN  /\ Len(g.heap) <= MaxBoards
        /\ heap' = g.heap
        /\ _active_board' = g.board
        /\ defaults_made' = Made(g)
        /\ lastOp' = Op("get_active_board", g.board, "", g.created, <<>>)
        /\ UNCHANGED <<saved, bufvars, precvars>>

pynboard_set_active_board(board) ==
    /\ _active_board' = board
    /\ lastOp' = Op("set_active_board", board, "", FALSE, <<>>)
    /\ UNCHANGED <<heap, saved, defaults_made, bufvars, precvars>>

pynboard_set_post_render_actions(actions) ==
    LET g == get_active_board
        self == [Board_set_post_render_actions(g.heap[g.board], actions)
                    EXCEPT !.rewired = TRUE]
    IN  /\ Len(g.heap) <= MaxBoards
        /\ heap' = Put(g, self)
        /\ _active_board' = g.board
        /\ defaults_made' = Made(g)
        /\ lastOp' = Op("set_post_render_actions", g.board, "", g.created, <<>>)
        /\ UNCHANGED <<saved, bufvars, precvars>>

pynboard_append(obj, kwargs) ==
    LET g == get_active_board
        r == Board_append(g.heap[g.board], obj, kwargs)
    IN  /\ Len(g.heap) <= MaxBoards
        /\ heap' = Put(g, r.self)
        /\ _active_board' = g.board
        /\ defaults_made' = Made(g)
        /\ lastOp' = Op("append", g.board, r.err, g.created, <<>>)
        /\ UNCHANGED <<saved, bufvars, precvars>>

\* render() that catches what a post-render action raises
pynboard_render_swallows(failAt) ==
    LET g == get_active_board
        r == Board_render(g.heap[g.board], saved, failAt)
    IN  /\ Len(g.heap) <= MaxBoards
        /\ CanFail(g.heap[g.board], failAt)
        /\ heap' = Put(g, r.self)
        /\ _active_board' = g.board
        /\ saved' = r.saved
        /\ defaults_made' = Made(g)
        /\ lastOp' = Op("render", g.board, "", g.created, r.calls)
        /\ UNCHANGED <<bufvars, precvars>>

pynboard_render(failAt) ==
    LET g == get_active_board
        r == Board_render(g.heap[g.board], saved, failAt)
    IN  /\ Len(g.heap) <= MaxBoards
        /\ CanFail(g.heap[g.board], failAt)
        /\ heap' = Put(g, r.self)
        /\ _active_board' = g.board
        /\ saved' = r.saved
        /\ defaults_made' = Made(g)
        /\ lastOp' = Op("render", g.board, r.err, g.created, r.calls)
        /\ UNCHANGED <<bufvars, precvars>>

pynboard_render_obj(obj, kwargs, failAt) ==
    LET g == get_active_board
        a == Board_append(g.heap[g.board], obj, kwargs)
        r == IF a.err # ""
             THEN [self |-> a.self, saved |-> saved, calls |-> <<>>, err |-> a.err]
             ELSE Board_render(a.self, saved, failAt)
    IN  /\ Len(g.heap) <= MaxBoards
        /\ IF a.err # "" THEN failAt = 0 ELSE CanFail(a.self, failAt)
        /\ heap' = Put(g, r.self)
        /\ _active_board' = g.board
        /\ saved' = r.saved
        /\ defaults_made' = Made(g)
        /\ lastOp' = Op("render_obj", g.board, r.err, g.created, r.calls)
        /\ UNCHANGED <<bufvars, precvars>>

pynboard_reset ==
    LET g == get_active_board
    IN  /\ Len(g.heap) <= MaxBoards
        /\ heap' = Put(g, Board_reset(g.heap[g.board]))
        /\ _active_board' = g.board
        /\ defaults_made' = Made(g)
        /\ lastOp' = Op("reset", g.board, "", g.created, <<>>)
        /\ UNCHANGED <<saved, bufvars, precvars>>

\* utils.init_html_board(file_path, open_file, reset_on_render, set_active);
\* the new board is the heap's at-th: one more, or in the place of a board
\* that nothing refers to any longer
init_html_board(file_path, open_file, reset_on_render, set_active, at) ==
    /\ at <= MaxBoards
    /\ heap' = [i \in 1..(IF at > Len(heap) THEN at ELSE Len(heap)) |->
                   IF i = at
                   THEN init_html_board_board(file_path, open_file, reset_on_render)
                   ELSE heap[i]]
    /\ _active_board' = IF set_active THEN at ELSE _active_board
    /\ lastOp' = Op("init_html_board", at, "", FALSE, <<>>)
    /\ UNCHANGED <<saved, defaults_made, bufvars, precvars>>

\* the objects appended to a board: a text and an object of no displayable type
BoardObjs == {StrObj(<<"a">>), StrObj(<<"b">>), IntObj}
\* the action lists a caller sets by hand
CustomActions == {<<>>, <<reset_buffer, dump_rendered_to_html_file("p")>>}

\* the active board's buffer holds fewer than n fragments
Room(n) ==
    IF _active_board = 0 THEN TRUE
    ELSE Len(heap[_active_board]._buffer.buffer_data) < n

\* One board at a time: the caller keeps no reference to a board it replaces,
\* whose place in the heap the new board takes.
Next ==
    \/ pynboard_get_active_board
    \/ \E actions \in CustomActions : pynboard_set_post_render_actions(actions)
    \/ \E obj \in BoardObjs : Room(MaxBoardFrags) /\ pynboard_append(obj, NoKw)
    \/ \E failAt \in 0..MaxActions : pynboard_render(failAt)
    \/ \E obj \in BoardObjs, failAt \in 0..MaxActions :
          Room(MaxBoardFrags) /\ pynboard_render_obj(obj, NoKw, failAt)
    \/ pynboard_reset
    \/ \E open_file, reset_on_render \in BOOLEAN :
          init_html_board("p", open_file, reset_on_render, TRUE, 1)

\* Several boards, every one of them kept by the caller, and no failing action.
SessionNext ==
    \/ pynboard_get_active_board
    \/ \E b \in 1..Len(heap) : pynboard_set_active_board(b)
    \/ pynboard_set_post_render_actions(<<>>)
    \/ Room(MaxSessionFrags) /\ pynboard_append(StrObj(<<"a">>), NoKw)
    \/ pynboard_render(0)
    \/ Room(MaxSessionFrags) /\ pynboard_render_obj(StrObj(<<"a">>), NoKw, 0)
    \/ pynboard_reset
    \/ \E set_active \in BOOLEAN :
          init_html_board("p", FALSE, TRUE, set_active, Len(heap) + 1)

\* ------------------------------------------------- one HtmlBuffer, called
\* The buffer under SpecBuf and SpecGrid is the pair buffer_data, rendered.

Self == [buffer_data |-> buffer_data, rendered |-> rendered]

SetSelf(self) ==
    /\ buffer_data' = self.buffer_data
    /\ rendered' = self.rendered

BufInit ==
    /\ buffer_data = HtmlBuffer.buffer_data
    /\ rendered = HtmlBuffer.rendered
    /\ lastCall = [op |-> "init", obj |-> IntObj, kwargs |-> NoKw, err |-> "",
                   prev |-> "init"]
    /\ appended = <<>>
    /\ snap = None

\* no table has been handed to the precision heuristic
PrecIdle == data_in = <<>> /\ prec_out = <<>>

\* a call of append(obj, **kwargs)
append(obj, kwargs) ==
    LET r == HtmlBuffer_append(Self, obj, kwargs)
    IN  /\ SetSelf(r.self)
        /\ lastCall' = Call("append", obj, kwargs, r.err)
        /\ appended' = IF r.err = "" THEN Append(appended, <<obj, kwargs>>)
                       ELSE appended
        /\ UNCHANGED <<snap, precvars, boardvars>>

\* a call of render()
render ==
    /\ SetSelf(HtmlBuffer_render(Self))
    /\ lastCall' = Call("render", IntObj, NoKw, "")
    /\ snap' = Some(buffer_data)
    /\ UNCHANGED <<appended, precvars, boardvars>>

\* a call of reset()
reset ==
    /\ SetSelf(HtmlBuffer_reset(Self))
    /\ lastCall' = Call("reset", IntObj, NoKw, "")
    /\ appended' = <<>>
    /\ snap' = None
    /\ UNCHANGED <<precvars, boardvars>>

\* the objects appended under SpecBuf: every single kind, an empty text, flat
\* and nested grids, and grids holding an element that is not displayable
SampleObjs ==
    { FigObj, StylerObj, FrameObj, SeriesObj, IntObj,
      StrObj(<<"a">>), StrObj(<<>>),
      ListObj(<<StrObj(<<"a">>), StrObj(<<"b">>)>>),
      ListObj(<<StrObj(<<"a">>), IntObj>>),
      TupleObj(<<ListObj(<<StrObj(<<"a">>)>>), ListObj(<<FrameObj, IntObj>>)>>),
      ListObj(<<ListObj(<<StrObj(<<"a">>)>>), DictObj(<<StrObj(<<"b">>)>>)>>),
      ListObj(<<ListObj(<<StrObj(<<"a">>)>>), IntObj>>) }

BufAppend ==
    /\ Len(buffer_data) < MaxFrags
    /\ \E obj \in SampleObjs, kwargs \in Kwargs : append(obj, kwargs)

BufNext == BufAppend \/ render \/ reset

InitBuf == BufInit /\ PrecIdle /\ BoardInit

SpecBuf == InitBuf /\ [][BufNext]_vars

\* ------------------------------------------------------------------ grids
\* The grids appended under SpecGrid: every flat row of up to MaxCols cells,
\* every grid of up to MaxRows rows (a row is a list of cells, a str, a dict
\* or an object that cannot be iterated), and some grids with other cells.

GridCells == {StrObj(<<"a">>), StrObj(<<"b">>), IntObj}
GridRowObjs ==
    {ListObj(cells) : cells \in SeqsUpTo(GridCells, 0, MaxCols)}
        \cup {StrObj(<<"a", "b">>), DictObj(<<StrObj(<<"b">>)>>), IntObj}
GridObjs ==
    {ListObj(cells) : cells \in SeqsUpTo(GridCells, 0, MaxCols)}
        \cup {ListObj(rows) : rows \in SeqsUpTo(GridRowObjs, 1, MaxRows)}
        \cup { TupleObj(<<StrObj(<<"a">>), StrObj(<<"b">>)>>),
               TupleObj(<<TupleObj(<<FrameObj, StrObj(<<"a">>)>>), ListObj(<<FigObj>>)>>),
               ListObj(<<StrObj(<<"a">>), ListObj(<<StrObj(<<"b">>)>>)>>),
               ListObj(<<ListObj(<<ListObj(<<StrObj(<<"a">>)>>)>>)>>) }

\* one grid appended to a fresh or reset buffer
GridAppend ==
    /\ lastCall.op # "append"
    /\ \E obj \in GridObjs, kwargs \in {NoKw, KwRaw} : append(obj, kwargs)

GridNext == GridAppend \/ reset

SpecGrid == InitBuf /\ [][GridNext]_vars

\* ------------------------------------------------------ display precision
\* A column is a sequence of integers, each a value in hundredths (a value v
\* stands for the number v / Unit).  A statistic is NaN or a rational
\* num / den of such numbers; arithmetic is exact.

Unit == 10 * 10
max_prec == 4

NaN == [k |-> "nan", num |-> 0, den |-> 1]
Rat(num, den) == [k |-> "num", num |-> num, den |-> den]

RECURSIVE SumTo(_, _)
SumTo(c, n) == IF n = 0 THEN 0 ELSE SumTo(c, n - 1) + c[n]
Sum(c) == SumTo(c, Len(c))

Abs(x) == IF x < 0 THEN -x ELSE x

\* the k-th smallest value of a non-empty column
KthSmallest(c, k) ==
    CHOOSE v \in {c[i] : i \in 1..Len(c)} :
        /\ Cardinality({i \in 1..Len(c) : c[i] < v}) < k
        /\ k <= Cardinality({i \in 1..Len(c) : c[i] <= v})

\* twice the median of a non-empty column (the median of an even number of
\* values is the mean of the middle two)
Median2(c) ==
    LET n == Len(c)
    IN  IF n % 2 = 1 THEN 2 * KthSmallest(c, (n + 1) \div 2)
        ELSE KthSmallest(c, n \div 2) + KthSmallest(c, n \div 2 + 1)

\* abs(data_in - data_in.median()).median() of one column
Mad(c) ==
    IF Len(c) = 0 THEN NaN
    ELSE LET m2 == Median2(c)
             dev2 == [i \in 1..Len(c) |-> Abs(2 * c[i] - m2)]
         IN  Rat(Median2(dev2), 4 * Unit)

\* data_in.std() squared: the sample variance (ddof = 1), NaN below two rows
Var(c) ==
    LET n == Len(c)
    IN  IF n < 2 THEN NaN
        ELSE Rat(n * Sum([i \in 1..n |-> c[i] * c[i]]) - Sum(c) * Sum(c),
                 n * (n - 1) * Unit * Unit)

\* data_in.mean() of one column
Mean(c) == IF Len(c) = 0 THEN NaN ELSE Rat(Sum(c), Len(c) * Unit)

\* floor(log10(num / den)) for num, den > 0
RECURSIVE FloorLog10(_, _)
FloorLog10(num, den) ==
    IF num >= 10 * den THEN FloorLog10(num, 10 * den) + 1
    ELSE IF num < den THEN FloorLog10(10 * num, den) - 1
    ELSE 0

\* a float holding an integer, -inf or NaN
FNum(v) == [k |-> "num", v |-> v]
FNegInf == [k |-> "-inf", v |-> 0]
FNaN == [k |-> "nan", v |-> 0]

\* np.floor(np.log10(x)) - 1: NaN for NaN and for x < 0, -inf for 0; with
\* root, x is the square root of the statistic given
PrecCandidate(x, root) ==
    IF x.k = "nan" \/ x.num < 0 THEN FNaN
    ELSE IF x.num = 0 THEN FNegInf
    ELSE FNum((IF root THEN FloorLog10(x.num, x.den) \div 2
               ELSE FloorLog10(x.num, x.den)) - 1)

\* .replace([np.inf, -np.inf], np.nan) left out
ReplaceInf_kept(x) == x

\* .replace([np.inf, -np.inf], np.nan)
ReplaceInf(x) == IF x.k = "-inf" THEN FNaN ELSE x

\* .bfill(axis=1) then column 0: the first candidate of the row that is not NaN
Bfill0(row) ==
    IF \E i \in 1..Len(row) : row[i].k # "nan"
    THEN row[CHOOSE i \in 1..Len(row) :
                 row[i].k # "nan" /\ \A j \in 1..(i - 1) : row[j].k = "nan"]
    ELSE FNaN

\* .fillna(0)
FillNa0(x) == IF x.k = "nan" THEN FNum(0) ELSE x

\* np.clip(x * -1, a_min=0, a_max=max_prec).astype(int)
ClipNeg(x) ==
    IF x.k = "-inf" THEN max_prec
    ELSE IF -x.v < 0 THEN 0
    ELSE IF -x.v > max_prec THEN max_prec
    ELSE -x.v

\* _get_default_numeric_col_display_precision(data_in): one precision per column
_get_default_numeric_col_display_precision(data) ==
    [j \in 1..Len(data) |->
        LET prec_mad == PrecCandidate(Mad(data[j]), FALSE)
            prec_std == PrecCandidate(Var(data[j]), TRUE)
            prec_mean == PrecCandidate(Mean(data[j]), FALSE)
            prec == FillNa0(Bfill0(<<ReplaceInf(prec_mad), ReplaceInf(prec_std),
                                     ReplaceInf(prec_mean)>>))
        IN  ClipNeg(prec)]

\* the values of a column, in hundredths: negative, zero, and positive values
\* from 0.01 to 25
PrecValues == {-200, 0, 1, 5, 30, 2500}
PrecColumns == SeqsUpTo(PrecValues, 0, MaxPrecRows)
\* tables of no column, of one column, and of two columns of equal length
PrecFrames ==
    {<<>>} \cup {<<c>> : c \in PrecColumns}
        \cup {cd \in {<<>>, <<30>>, <<0>>, <<5, 5>>, <<-200, 2500>>}
                        \X {<<>>, <<30>>, <<0>>, <<5, 5>>, <<-200, 2500>>} :
                 Len(cd[1]) = Len(cd[2])}

PrecInit == data_in \in PrecFrames /\ prec_out = <<>>

\* the heuristic applied to the table
ComputePrecision ==
    /\ prec_out = <<>>
    /\ prec_out' = <<_get_default_numeric_col_display_precision(data_in)>>
    /\ UNCHANGED <<data_in, bufvars, boardvars>>

InitPrec == BufInit /\ PrecInit /\ BoardInit

SpecPrec == InitPrec /\ [][ComputePrecision]_vars

\* ---------------------------------------------------------- the session

Init == BufInit /\ PrecIdle /\ BoardInit

Spec == Init /\ [][Next]_vars

SpecSession == Init /\ [][SessionNext]_vars

\* ------------------------------------------------- properties of HtmlBuffer

Header == _TEXT_CSS_STYLE \o <<"\n\n\n">>

\* where fragment i starts in a document: after the header, the fragments
\* before it and one separator for each of them
RECURSIVE FragStart(_, _)
FragStart(frags, i) ==
    IF i = 1 THEN Len(Header)
    ELSE FragStart(frags, i - 1) + Len(frags[i - 1]) + Len(Separator)

\* doc is the header, then the fragments in order, a separator between
\* neighbours and nothing else
IsDocOf(doc, frags) ==
    LET n == Len(frags)
    IN  /\ SubSeq(doc, 1, Len(Header)) = Header
        /\ Len(doc) = IF n = 0 THEN Len(Header)
                      ELSE FragStart(frags, n) + Len(frags[n])
        /\ \A i \in 1..n :
              LET at == FragStart(frags, i)
              IN  /\ SubSeq(doc, at + 1, at + Len(frags[i])) = frags[i]
                  /\ i < n =>
                        SubSeq(doc, at + Len(frags[i]) + 1,
                               at + Len(frags[i]) + Len(Separator)) = Separator

\* the fragment each successful append call since the last reset stands for
CallFrags == [i \in 1..Len(appended) |-> _obj_to_html(appended[i][1], appended[i][2]).html]

\* C1: after n >= 1 successful appends since creation or the last reset, render()
\* stores the stylesheet header followed by exactly n fragments, one per append
\* call, in insertion order, duplicates kept, joined by the separator.
C1_RenderJoinsAllFragments ==
    (lastCall.op = "render" /\ Len(appended) >= 1) =>
        /\ Len(rendered) = 1
        /\ Len(buffer_data) = Len(appended)
        /\ IsDocOf(rendered[1], CallFrags)

\* render() after two appends of the same object: both fragments are kept
C1_Witness ==
    /\ lastCall.op = "render"
    /\ Len(appended) = 2
    /\ appended[1] = appended[2]
    /\ Len(CallFrags[1]) > 0

\* the objects the specification calls displayable: a chart, a styled table, a
\* dataframe or series, a string, or a list or tuple of those
RECURSIVE Supported(_)
Supported(obj) ==
    \/ obj.kind \in {"Figure", "Styler", "DataFrame", "Series", "str"}
    \/ /\ IsListOrTuple(obj)
       /\ \A i \in 1..Len(obj.items) : Supported(obj.items[i])

\* C2: appending an object that is not displayable raises the unsupported-type
\* error and leaves the fragment sequence and the rendered output unchanged,
\* also when the offending element of a grid comes after displayable ones.
C2_UnsupportedAppendRaises ==
    [][(lastCall'.op = "append" /\ ~Supported(lastCall'.obj)) =>
          /\ lastCall'.err # ""
          /\ buffer_data' = buffer_data
          /\ rendered' = rendered]_vars

\* what does hold of append: a call that raises appends nothing, whatever was
\* converted before the offending element
AppendThatRaisesAddsNothing ==
    [][(lastCall'.op = "append" /\ lastCall'.err # "") =>
          (buffer_data' = buffer_data /\ rendered' = rendered)]_vars

\* C4: rendered is None exactly when render() has not been called since the
\* buffer was created or last reset; otherwise it is the document of the most
\* recent render(), which later appends do not change; reset() leaves the
\* fragment sequence empty and rendered None.
C4_RenderedIsLastRender ==
    /\ rendered = None <=> snap = None
    /\ snap # None => (Len(rendered) = 1 /\ IsDocOf(rendered[1], snap[1]))
    /\ lastCall.op = "reset" => (buffer_data = <<>> /\ rendered = None)

\* an append after a render: the stored document is still the render's
C4_Witness ==
    /\ lastCall.op = "append"
    /\ lastCall.err = ""
    /\ snap # None
    /\ snap[1] # buffer_data

\* C7: render() called again with an unchanged fragment sequence stores the same
\* document, and render() never modifies the fragment sequence.
C7_RenderIdempotent ==
    [][lastCall'.op = "render" =>
          /\ buffer_data' = buffer_data
          /\ snap = Some(buffer_data) => rendered' = rendered]_vars

\* render() straight after render(), with fragments in the buffer
C7_Witness ==
    /\ lastCall.op = "render"
    /\ lastCall.prev = "render"
    /\ Len(buffer_data) = 2

\* ----------------------------------------------------- properties of grids

\* how many times token t occurs in s[1..n]
RECURSIVE CountUpTo(_, _, _)
CountUpTo(s, t, n) ==
    IF n = 0 THEN 0 ELSE CountUpTo(s, t, n - 1) + (IF s[n] = t THEN 1 ELSE 0)

Count(s, t) == CountUpTo(s, t, Len(s))

\* the position of the k-th occurrence of token t in s (0 when there is none)
NthPos(s, t, k) ==
    IF \E p \in 1..Len(s) : s[p] = t /\ CountUpTo(s, t, p) = k
    THEN CHOOSE p \in 1..Len(s) : s[p] = t /\ CountUpTo(s, t, p) = k
    ELSE 0

\* the elements of a sequence: a list or tuple's items, a str's characters
ElementsOf(row) ==
    IF row.kind = "str" THEN [i \in 1..Len(row.text) |-> StrObj(<<row.text[i]>>)]
    ELSE row.items

\* the rows the specification gives a grid: a flat sequence is one row, a
\* sequence of sequences one row per inner sequence
ExpectedRows(grid) ==
    IF Len(grid.items) = 0 THEN <<>>
    ELSE IF ~IsListOrTuple(grid.items[1]) THEN <<grid.items>>
    ELSE [r \in 1..Len(grid.items) |-> ElementsOf(grid.items[r])]

\* all cells of the rows, row after row
RECURSIVE Flatten(_)
Flatten(rows) == IF Len(rows) = 0 THEN <<>> ELSE rows[1] \o Flatten(Tail(rows))

\* frag is one table with the given rows of cells, each cell holding the HTML
\* of its element converted alone
IsTableOf(frag, rows, kwargs) ==
    LET cells == Flatten(rows)
    IN  /\ Count(frag, "<table>") = 1 /\ frag[1] = "<table>"
        /\ frag[Len(frag)] = "</table>"
        /\ Count(frag, "<tr>") = Len(rows)
        /\ Count(frag, "</tr>") = Len(rows)
        /\ Count(frag, "<td>") = Len(cells)
        /\ \A r \in 1..Len(rows) :
              LET open == NthPos(frag, "<tr>", r)
                  close == NthPos(frag, "</tr>", r)
              IN  /\ open < close
                  /\ CountUpTo(frag, "<td>", close) - CountUpTo(frag, "<td>", open)
                        = Len(rows[r])
        /\ \A k \in 1..Len(cells) :
              LET at == NthPos(frag, "<td>", k)
                  html0 == _obj_single_to_html(cells[k], kwargs).html
              IN  /\ SubSeq(frag, at + 1, at + Len(html0)) = html0
                  /\ frag[at + Len(html0) + 1] = "</td>"

\* C8: appending a list or tuple produces exactly one fragment holding one
\* <table>; a flat sequence gives one <tr> with one <td> per element in order, a
\* sequence of sequences one <tr> per inner sequence with one <td> per element,
\* each cell holding the HTML of its element rendered alone.
C8_GridIsOneTable ==
    (lastCall.op = "append" /\ IsListOrTuple(lastCall.obj) /\ lastCall.err = "") =>
        /\ Len(buffer_data) = 1
        /\ IsTableOf(buffer_data[1], ExpectedRows(lastCall.obj), lastCall.kwargs)

\* ["a", "b"] appended: one table, one row, two cells of markdown
C8_Witness ==
    /\ lastCall.op = "append"
    /\ lastCall.obj = ListObj(<<StrObj(<<"a">>), StrObj(<<"b">>)>>)
    /\ lastCall.kwargs = NoKw
    /\ buffer_data =
          << << "<table>", "\n", "<tr>", "\n",
                "<td>", "<p>", "a", "</p>", "</td>", "\n",
                "<td>", "<p>", "b", "</p>", "</td>", "\n",
                "</tr>", "\n", "</table>" >> >>

\* ------------------------------------------- properties of the precision

RECURSIVE Pow10(_)
Pow10(k) == IF k = 0 THEN 1 ELSE 10 * Pow10(k - 1)

\* the statistic is a number above zero: its log10 is defined and finite
IsPositive(x) == x.k = "num" /\ x.num > 0

\* x >= 10^k, for a positive statistic x
GeqPow10(x, k) ==
    IF k >= 0 THEN x.num >= x.den * Pow10(k)
    ELSE x.num >= x.den \/ x.num * Pow10(-k) >= x.den

\* p is the precision of the value v: 0 for v >= 10, 1 for 1 <= v < 10, 2 for
\* 0.1 <= v < 1, 3 for 0.01 <= v < 0.1 and 4, the most, below 0.01; with root, v
\* is the square root of x, else x
InBand(x, root, p) ==
    LET e(k) == IF root THEN 2 * k ELSE k
    IN  /\ p < 4 => GeqPow10(x, e(1 - p))
        /\ p > 0 => ~GeqPow10(x, e(2 - p))

\* C9: for every numeric column the precision is an integer from 0 to 4, derived
\* from the first of median absolute deviation, standard deviation and mean
\* that is defined and finite, and 0 when none is; a result is computed (no
\* exception) for all-identical values and for a table of zero rows.
C9_PrecisionFromFirstDefined ==
    prec_out # <<>> =>
        /\ Len(prec_out[1]) = Len(data_in)
        /\ \A j \in 1..Len(data_in) :
              LET p == prec_out[1][j]
                  mad == Mad(data_in[j])
                  var == Var(data_in[j])
                  mean == Mean(data_in[j])
              IN  /\ p \in 0..4
                  /\ IF IsPositive(mad) THEN InBand(mad, FALSE, p)
                     ELSE IF IsPositive(var) THEN InBand(var, TRUE, p)
                     ELSE IF IsPositive(mean) THEN InBand(mean, FALSE, p)
                     ELSE p = 0

\* all-identical values 0.3, 0.3, 0.3: deviation and spread are zero, the mean
\* decides
C9_Witness ==
    /\ data_in = << <<30, 30, 30>> >>
    /\ prec_out = << <<2>> >>

\* ----------------------------------------------- properties of the wiring

\* the board a module-level operation is about to act on
PreBoard == IF _active_board = 0 THEN create_default_board ELSE heap[_active_board]

\* the names of the actions invoked, in the order of invocation
CallNames(calls) == [i \in 1..Len(calls) |-> calls[i].name]

\* a board as create_default_board wired it
DefaultWired(board) == board.built = "default" /\ ~board.rewired

RenderOps == {"render", "render_obj"}

\* C3: with the default wiring, the first module-level append creates an active
\* board when there is none, and a later module-level render() invokes exactly
\* three post-render actions, file-save, browser-open, buffer-reset, in that
\* order, the save while the rendered output is still present, and leaves the
\* buffer with an empty fragment sequence.
C3_DefaultWiring ==
    [][/\ (_active_board = 0 /\ lastOp'.op = "append") =>
             /\ lastOp'.created
             /\ _active_board' # 0
             /\ DefaultWired(heap'[_active_board'])
       /\ (lastOp'.op = "render" /\ lastOp'.err = "" /\ DefaultWired(PreBoard)) =>
             /\ CallNames(lastOp'.calls) =
                   <<"dump_rendered_to_html_file", "open_saved_buffer_in_browser",
                     "reset_buffer">>
             /\ Len(lastOp'.calls[1].rendered) = 1
             /\ IsDocOf(lastOp'.calls[1].rendered[1], PreBoard._buffer.buffer_data)
             /\ saved' = lastOp'.calls[1].rendered
             /\ heap'[lastOp'.board]._buffer.buffer_data = <<>>]_vars

\* a render() of the default board that held two fragments: three actions ran,
\* the file holds the document, the buffer is empty
C3_Witness ==
    /\ lastOp.op = "render"
    /\ lastOp.err = ""
    /\ DefaultWired(heap[lastOp.board])
    /\ Len(lastOp.calls) = 3
    /\ saved = Some(RenderDoc(<<markdown(<<"a">>), markdown(<<"b">>)>>))
    /\ heap[lastOp.board]._buffer.buffer_data = <<>>

\* the actions among the first n of a list that bear the name
Among(actions, n, name) == \E i \in 1..n : actions[i].name = name

\* C5: a post-render action that raises during Board.render() propagates to the
\* caller of render() and ends the sequence: no action registered after it is
\* invoked, the ones before it have taken effect and are not rolled back (with
\* the default order a failing file-save leaves the buffer not reset), and none
\* is invoked twice.
C5_FailingActionAborts ==
    [][(lastOp'.op \in RenderOps /\ \E i \in 1..Len(lastOp'.calls) : lastOp'.calls[i].raised) =>
          LET acts == PreBoard._post_render_actions
              calls == lastOp'.calls
              k == Len(calls)
              buffer == heap'[lastOp'.board]._buffer
          IN  /\ lastOp'.err = "CallbackError"
              /\ k <= Len(acts)
              /\ CallNames(calls) = [i \in 1..k |-> acts[i].name]
              /\ \A i \in 1..k : calls[i].raised <=> i = k
              /\ IF Among(acts, k - 1, "reset_buffer")
                 THEN buffer = HtmlBuffer
                 ELSE /\ buffer.rendered # None
                      /\ lastOp'.op = "render" =>
                            buffer.buffer_data = PreBoard._buffer.buffer_data
              /\ IF Among(acts, k - 1, "dump_rendered_to_html_file")
                 THEN \E i \in 1..(k - 1) :
                        /\ calls[i].name = "dump_rendered_to_html_file"
                        /\ saved' = calls[i].rendered
                 ELSE saved' = saved]_vars

\* the default board, two fragments in it, and a file-save that raised: nothing
\* else was invoked and the buffer is not reset
C5_Witness ==
    /\ lastOp.op = "render"
    /\ lastOp.err = "CallbackError"
    /\ DefaultWired(heap[lastOp.board])
    /\ Len(lastOp.calls) = 1
    /\ Len(heap[lastOp.board]._buffer.buffer_data) = 2
    /\ heap[lastOp.board]._buffer.rendered # None

ModuleOps ==
    {"append", "render", "render_obj", "reset", "set_post_render_actions",
     "get_active_board"}

\* C6: the active board is null until first accessed; over any sequence of
\* module-level operations a default board is constructed at most once and only
\* when the reference is null, every operation acts on the current active
\* board, and after set_active_board(b) every operation acts on b and none
\* touches another board.
C6_OneActiveBoard ==
    /\ _active_board = 0
    /\ [][/\ defaults_made' <= 1
          /\ defaults_made' # defaults_made => (_active_board = 0 /\ lastOp'.created)
          /\ lastOp'.op \in ModuleOps =>
                /\ lastOp'.board = _active_board'
                /\ _active_board # 0 => _active_board' = _active_board
                /\ _active_board = 0 => lastOp'.created
                /\ \A i \in 1..Len(heap) : i # _active_board' => heap'[i] = heap[i]
          /\ lastOp'.op = "set_active_board" =>
                (_active_board' = lastOp'.board /\ heap' = heap)]_vars

\* the default board was created by the first append and holds its fragment; a
\* second board was made active, and the last append went to it alone
C6_Witness ==
    /\ Len(heap) = 2
    /\ _active_board = 2
    /\ defaults_made = 1
    /\ lastOp.op = "append"
    /\ lastOp.board = 2
    /\ heap[1].built = "default"
    /\ heap[1]._buffer.buffer_data = <<markdown(<<"a">>)>>
    /\ heap[2]._buffer.buffer_data = <<markdown(<<"a">>)>>

IsPrefix(s, t) == Len(s) <= Len(t) /\ SubSeq(t, 1, Len(s)) = s

\* a board as init_html_board built it with reset_on_render=False
KeepWired(board) == board.built = "init_keep" /\ ~board.rewired

\* C10: for every combination of open_file and reset_buffer the sequence of
\* action_sequence_html_file starts with the file-save, holds browser-open
\* exactly when open_file and buffer-reset exactly when reset_buffer, the reset
\* last and the open between save and reset; so a board built by
\* init_html_board with reset_on_render=False keeps its fragments across
\* renders, and each render output holds every fragment appended since the last
\* explicit reset.
C10_ActionSequenceAndKeep ==
    /\ \A file_path \in {"", "p"}, open_file \in BOOLEAN, reset_buffer_ \in BOOLEAN :
          LET out == action_sequence_html_file(file_path, open_file, reset_buffer_)
              n == Len(out)
          IN  /\ out[1] = dump_rendered_to_html_file(file_path)
              /\ n = 1 + (IF open_file THEN 1 ELSE 0) + (IF reset_buffer_ THEN 1 ELSE 0)
              /\ open_file => out[2] = open_saved_buffer_in_browser
              /\ reset_buffer_ => out[n] = reset_buffer
              /\ ~open_file => \A i \in 1..n : out[i] # open_saved_buffer_in_browser
              /\ ~reset_buffer_ => \A i \in 1..n : out[i] # reset_buffer
    /\ [][(/\ _active_board # 0
           /\ _active_board' = _active_board
           /\ lastOp'.op # "init_html_board"
           /\ KeepWired(heap[_active_board])
           /\ KeepWired(heap'[_active_board])) =>
             LET old == heap[_active_board]._buffer
                 new == heap'[_active_board]._buffer
             IN  /\ lastOp'.op # "reset" => IsPrefix(old.buffer_data, new.buffer_data)
                 /\ (lastOp'.op \in RenderOps
                        /\ lastOp'.err \in {"", "CallbackError"}) =>
                       /\ Len(new.rendered) = 1
                       /\ IsDocOf(new.rendered[1], new.buffer_data)]_vars

\* a render of a board built with reset_on_render=False: both fragments
\* appended so far are still in the buffer and in the output
C10_Witness ==
    /\ lastOp.op = "render"
    /\ _active_board # 0
    /\ KeepWired(heap[lastOp.board])
    /\ heap[lastOp.board]._buffer.buffer_data = <<markdown(<<"a">>), markdown(<<"b">>)>>
    /\ heap[lastOp.board]._buffer.rendered =
          Some(RenderDoc(<<markdown(<<"a">>), markdown(<<"b">>)>>))
    /\ saved = heap[lastOp.board]._buffer.rendered

====
